---- MODULE Spec2Model ----
(***************************************************************************)
(* Time proportioning driver xdrv_91_timeprop.ino of Sonoff-Tasmota.       *)
(*                                                                         *)
(* The driver (Timeprop_Init, Timeprop_Set_Power, Timeprop_Every_Second,   *)
(* Timeprop_Xdrv_Power, Timeprop_Command, Xdrv91) is translated from the   *)
(* source file.  The class Timeprop it drives (Timeprop.h: initialise,     *)
(* setPower, tick) and the firmware's ExecuteCommandPower are not part of  *)
(* the source file; they are modelled from the specification (sections 3   *)
(* and 4.1) and from the comments of the driver.                           *)
(*                                                                         *)
(* A power value (a C float) is the rational <<n, d>> it stands for, with  *)
(* d > 0, in lowest terms.  Times are whole seconds.                       *)
(***************************************************************************)
EXTENDS Integers, Sequences, FiniteSets, TLC

\* ------------------------------------------------------------------ bounds

\* seconds the model lets the clock run with one output
MaxTime == 7
\* seconds the model lets the clock run with two outputs
MaxBankTime == 3
\* cycle times a configuration may name: 0..MaxCycle (0 is an invalid configuration)
MaxCycle == 4
\* dead times a configuration may name: 0..MaxDead
MaxDead == 3
\* stale-input timeouts a configuration may name: 0..MaxInterval (0 disables)
MaxInterval == 1
\* seconds the model lets the clock run in the scenario of the header's second relay
MaxScenarioTime == 21

\* ------------------------------------------------------- program constants

\* #define TIMEPROP_CYCLETIMES 60, 10: the cycle time of the header's second relay
ScenarioCycle == 10

\* ------------------------------------------------------------- rationals

RECURSIVE GCD(_, _)
GCD(a, b) == IF b = 0 THEN a ELSE GCD(b, a % b)

Abs(x) == IF x < 0 THEN -x ELSE x

\* the rational n/d (d > 0) in lowest terms
Rat(n, d) ==
  LET g == GCD(Abs(n), d) IN <<n \div g, d \div g>>

Zero == <<0, 1>>
One == <<1, 1>>

\* the values of a float that are no numbers: a denominator 0
PosInf == <<1, 0>>
NegInf == <<-1, 0>>
NaN == <<0, 0>>

\* p < q as the float comparison decides it: false whenever one side is NaN
RatLess(p, q) ==
  IF p = NaN \/ q = NaN THEN FALSE
  ELSE IF p[2] = 0 /\ q[2] = 0 THEN p[1] < q[1]
  ELSE p[1] * q[2] < q[1] * p[2]

\* round(p * k) for a power p >= 0 and an integer k >= 0, halves away from zero
Round(p, k) == (2 * p[1] * k + p[2]) \div (2 * p[2])

\* conversion of a floating value to int (C truncates towards zero)
ToInt(p) == IF p[1] >= 0 THEN p[1] \div p[2] ELSE -((-p[1]) \div p[2])

\* 0/1 exclusive or
Xor(a, b) == IF a = b THEN 0 ELSE 1

\* bitRead(value, bit)
bitRead(value, bit) == (value \div (2 ^ bit)) % 2

\* bitWrite(value, bit, b)
bitWrite(value, bit, b) == value - bitRead(value, bit) * (2 ^ bit) + b * (2 ^ bit)


\* ------------------------------------------------------------- state

VARIABLES
  config,                      \* the TIMEPROP_* macros of user_config.h
  booted,                      \* FUNC_INIT has run
  timeprops,                   \* static Timeprop timeprops[TIMEPROP_NUM_OUTPUTS]
  currentRelayStates,          \* static long currentRelayStates
  timeprop_current_time_secs,  \* static long timeprop_current_time_secs
  mqtt_data,                   \* the response buffer: <<index, data>> of the last acknowledgement
  hist,                        \* per output: what the ticks returned so far
  twins                        \* per output: the same controller with the output inverted the other way

vars == <<config, booted, timeprops, currentRelayStates,
          timeprop_current_time_secs, mqtt_data, hist, twins>>

\* ------------------------------------------- class Timeprop (Timeprop.h)

\* a configuration the specification accepts (section 3, section 7)
ValidConfiguration(cycleTime, deadTime) ==
  cycleTime > 0 /\ deadTime >= 0 /\ deadTime < cycleTime

\* setPower storing the value it is given
Clamp_None(power) == power

\* setPower: values outside [0,1] are clamped on input; a value that is not a
\* number is neither below 0 nor above 1 nor inside, and the bound it is
\* clamped to is one or the other for a given build of the class
Clamp(power) ==
  IF power = NaN THEN config.clampedNaN
  ELSE IF RatLess(power, Zero) THEN Zero
  ELSE IF RatLess(One, power) THEN One
  ELSE power

\* isStale without the test that disables the timeout
IsStale_NoDisable(c, now) == now - c.lastPowerUpdateTime > c.maxUpdateIntervalSeconds

\* isStale: maxUpdateIntervalSeconds > 0 AND now - lastPowerUpdateTime > maxUpdateIntervalSeconds
IsStale(c, now) ==
  /\ c.maxUpdateIntervalSeconds > 0
  /\ now - c.lastPowerUpdateTime > c.maxUpdateIntervalSeconds

\* tick that never substitutes the fallback power
EffectivePower_Requested(c, now) == c.requestedPower

\* tick, step 1: the effective power
EffectivePower(c, now) ==
  IF IsStale(c, now) THEN c.fallbackPower ELSE c.requestedPower

\* the on-time truncated instead of rounded
OnTime_Truncated(power, cycleTime) == (power[1] * cycleTime) \div power[2]

\* tick, step 2: onTimeThisCycle = round(effectivePower * cycleTimeSeconds)
OnTime(power, cycleTime) == Round(power, cycleTime)

\* the desired state without the dead-time guard
DesiredState_NoDeadTime(c, elapsed) == elapsed < c.onTimeThisCycle

\* tick, step 4: the desired logical state `elapsed` seconds into the cycle,
\* with full-off/full-on saturation and the dead-time guard: a short on-segment
\* is suppressed, a short off-segment is merged into the on-segment, and an
\* output that is off is not switched on when what is left of the on-segment
\* is shorter than the dead time
DesiredState(c, elapsed) ==
  LET on == c.onTimeThisCycle
      off == c.cycleTimeSeconds - c.onTimeThisCycle
  IN  IF on <= 0 THEN FALSE
      ELSE IF off <= 0 THEN TRUE
      ELSE IF on < c.deadTimeSeconds THEN FALSE
      ELSE IF off < c.deadTimeSeconds THEN TRUE
      ELSE IF elapsed >= on THEN FALSE
      ELSE c.currentOutputState \/ on - elapsed >= c.deadTimeSeconds

\* onTimeThisCycle before the first cycle has started
NoOnTime == -1

\* a Timeprop object before initialise
Constructed ==
  [ cycleTimeSeconds         |-> 0,
    deadTimeSeconds          |-> 0,
    outputInverted           |-> 0,
    fallbackPower            |-> Zero,
    maxUpdateIntervalSeconds |-> 0,
    requestedPower           |-> Zero,
    lastPowerUpdateTime      |-> 0,
    cycleStartTime           |-> 0,
    onTimeThisCycle          |-> NoOnTime,
    currentOutputState       |-> FALSE,
    configError              |-> FALSE ]

\* initialise(cycleTime, deadTime, invert, fallbackPower, maxUpdateInterval, now)
\* on an object as constructed: the configuration, requestedPower, the two
\* times and the output are set; the on-time is left to the first tick
initialise(cycleTime, deadTime, invert, fallbackPower, maxUpdateInterval, now) ==
  [ Constructed EXCEPT
      !.cycleTimeSeconds         = cycleTime,
      !.deadTimeSeconds          = deadTime,
      !.outputInverted           = invert,
      !.fallbackPower            = fallbackPower,
      !.maxUpdateIntervalSeconds = maxUpdateInterval,
      !.requestedPower           = fallbackPower,
      !.lastPowerUpdateTime      = now,
      !.cycleStartTime           = now,
      !.currentOutputState       = FALSE,
      !.configError              = ~ValidConfiguration(cycleTime, deadTime) ]

\* setPower(power, now): the controller after the call
setPower(c, power, now) ==
  [c EXCEPT !.requestedPower = Clamp(power), !.lastPowerUpdateTime = now]

\* tick, step 2: a whole cycle has passed since cycleStartTime
CycleElapsed(c, now) == now - c.cycleStartTime >= c.cycleTimeSeconds

\* tick, step 2: does this tick start a cycle: the first tick after initialise
\* starts the first cycle, and a tick a whole cycle after cycleStartTime the next
StartsCycle(c, now) == c.onTimeThisCycle = NoOnTime \/ CycleElapsed(c, now)

\* tick(now): the controller after the call
tick(c, now) ==
  LET c1 == IF CycleElapsed(c, now)
            THEN [c EXCEPT !.cycleStartTime = c.cycleStartTime + c.cycleTimeSeconds]
            ELSE c
      c2 == IF StartsCycle(c, now)
            THEN [c1 EXCEPT !.onTimeThisCycle =
                              OnTime(EffectivePower(c, now), c.cycleTimeSeconds)]
            ELSE c1
  IN  [c2 EXCEPT !.currentOutputState = DesiredState(c2, now - c2.cycleStartTime)]

\* tick(now): the value returned, the logical state XOR outputInverted
tickResult(c) == Xor(IF c.currentOutputState THEN 1 ELSE 0, c.outputInverted)

\* ------------------------------------------------------------ characters

\* text is a sequence of one-character strings
UpperChars ==
  << "A", "B", "C", "D", "E", "F", "G", "H", "I", "J", "K", "L", "M",
     "N", "O", "P", "Q", "R", "S", "T", "U", "V", "W", "X", "Y", "Z" >>

LowerChars ==
  << "a", "b", "c", "d", "e", "f", "g", "h", "i", "j", "k", "l", "m",
     "n", "o", "p", "q", "r", "s", "t", "u", "v", "w", "x", "y", "z" >>

\* isupper(ch)
UpperSet == {UpperChars[k] : k \in 1..26}

\* each upper-case letter's lower-case letter
LowerOf ==
  [ ch \in UpperSet |-> LowerChars[CHOOSE k \in 1..26 : UpperChars[k] = ch] ]

\* tolower(ch)
tolower(ch) == IF ch \in UpperSet THEN LowerOf[ch] ELSE ch

\* do text a from position i and text b from position j go on with the same n
\* characters, whatever the case: the comparison of strncasecmp and strcasecmp
SameNoCase(a, i, b, j, n) ==
  \A k \in 0..(n - 1) :
    /\ i + k <= Len(a)
    /\ j + k <= Len(b)
    /\ tolower(a[i + k]) = tolower(b[j + k])

\* does `word` go on from position i with `part`, whatever the case
FollowedBy(word, i, part) == SameNoCase(word, i, part, 1, Len(part))

\* #define D_CMND_TIMEPROP "timeprop_"
D_CMND_TIMEPROP == <<"t", "i", "m", "e", "p", "r", "o", "p", "_">>

\* #define D_CMND_TIMEPROP_SETPOWER "setpower_"
D_CMND_TIMEPROP_SETPOWER == <<"s", "e", "t", "p", "o", "w", "e", "r", "_">>

\* ------------------------------------------------------------ atof

\* isspace(ch): space, \t, \n, \v (the character 11), \f, \r
IsSpace(ch) == ch \in {" ", "\t", "\n", "", "\f", "\r"}

RECURSIVE SkipSpace(_, _)
SkipSpace(s, i) == IF i <= Len(s) /\ IsSpace(s[i]) THEN SkipSpace(s, i + 1) ELSE i

DigitChars ==
  << "0", "1", "2", "3", "4", "5", "6", "7", "8", "9", "a", "b", "c", "d", "e", "f" >>

\* isxdigit(ch) of a character in lower case
DigitSet == {DigitChars[k] : k \in 1..16}

\* each digit's value, the hexadecimal digits in lower case
DigitOf == [ ch \in DigitSet |-> (CHOOSE k \in 1..16 : DigitChars[k] = ch) - 1 ]

\* is ch a digit of the base (10 or 16)
IsDigit(ch, base) == tolower(ch) \in DigitSet /\ DigitOf[tolower(ch)] < base

DigitVal(ch) == DigitOf[tolower(ch)]

\* the digits and at most one point from position i on: the mantissa n/d read,
\* the position after it, and whether any digit was read
RECURSIVE AtofDigits(_, _, _, _, _, _, _)
AtofDigits(s, i, base, n, d, dot, seen) ==
  IF i <= Len(s) /\ IsDigit(s[i], base)
  THEN AtofDigits(s, i + 1, base, base * n + DigitVal(s[i]),
                  IF dot THEN base * d ELSE d, dot, TRUE)
  ELSE IF i <= Len(s) /\ s[i] = "." /\ ~dot
  THEN AtofDigits(s, i + 1, base, n, d, TRUE, seen)
  ELSE [n |-> n, d |-> d, next |-> i, seen |-> seen]

\* the decimal digits of an exponent from position i on
RECURSIVE AtofExponentDigits(_, _, _, _)
AtofExponentDigits(s, i, e, seen) ==
  IF i <= Len(s) /\ IsDigit(s[i], 10)
  THEN AtofExponentDigits(s, i + 1, 10 * e + DigitVal(s[i]), TRUE)
  ELSE [e |-> e, seen |-> seen]

\* the exponent at position i, written with `mark` (e for decimal, p for
\* hexadecimal text): 0 when no exponent with at least one digit stands there
AtofExponent(s, i, mark) ==
  IF i <= Len(s) /\ tolower(s[i]) = mark
  THEN LET signed == i + 1 <= Len(s) /\ s[i + 1] \in {"-", "+"}
           r == AtofExponentDigits(s, IF signed THEN i + 2 ELSE i + 1, 0, FALSE)
       IN  IF ~r.seen THEN 0
           ELSE IF signed /\ s[i + 1] = "-" THEN -r.e ELSE r.e
  ELSE 0

\* the number of digits of n > 0 written in the radix
RECURSIVE NumDigits(_, _)
NumDigits(n, radix) == IF n < radix THEN 1 ELSE 1 + NumDigits(n \div radix, radix)

\* the first `count` digits of n > 0 written in the radix, zeros appended to a
\* shorter n
Leading(n, radix, count) ==
  LET have == NumDigits(n, radix)
  IN  IF have <= count THEN n * radix ^ (count - have)
      ELSE n \div radix ^ (have - count)

\* the m with radix^(m-1) <= n/d * radix^e < radix^m, d being a power of the radix
Magnitude(n, d, radix, e) == NumDigits(n, radix) - NumDigits(d, radix) + 1 + e

\* the two sides of the comparison of n/d * radix^e with p * 2^q, cleared of
\* fractions
ScaledSide(n, radix, e, q) ==
  n * (IF e >= 0 THEN radix ^ e ELSE 1) * (IF q < 0 THEN 2 ^ (-q) ELSE 1)

LimitSide(d, radix, e, p, q) ==
  p * d * (IF e < 0 THEN radix ^ (-e) ELSE 1) * (IF q >= 0 THEN 2 ^ q ELSE 1)

\* is n/d * radix^e a value that reaches setPower as infinity: atof rounds the
\* text to a double and the call rounds the double to a float, so a value of at
\* least 2^128 - 2^103 - 2^74 = (2^54 - 2^29 - 1) * 2^74 = 3.40282356...e38
\* becomes the double 2^128 - 2^103 or more, and that the float infinity
RoundsToInfinity(n, d, radix, e) ==
  LET m == Magnitude(n, d, radix, e)
  IN  IF radix = 2
      THEN \/ m > 128
           \/ m = 128 /\ Leading(n, 2, 25) = 2 ^ 25 - 1
           \/ /\ m = 128
              /\ Leading(n, 2, 25) = 2 ^ 25 - 2
              /\ Leading(n, 2, 54) >= 2 ^ 54 - 2 ^ 29 - 1
      ELSE \/ m > 39
           \/ m = 39 /\ Leading(n, 10, 9) > 340282356
           \/ /\ m = 39
              /\ Leading(n, 10, 9) = 340282356
              /\ ScaledSide(n, 10, e, 74)
                   >= LimitSide(d, 10, e, 2 ^ 54 - 2 ^ 29 - 1, 74)

\* is n/d * radix^e a value that reaches setPower as 0: one of at most
\* 2^-150 + 2^-203 = (2^53 + 1) * 2^-203 = 7.00649232...e-46, which becomes
\* the double 2^-150 or less, and that the float 0
RoundsToZero(n, d, radix, e) ==
  LET m == Magnitude(n, d, radix, e)
  IN  IF radix = 2
      THEN \/ m < -149
           \/ m = -149 /\ n = 2 ^ (NumDigits(n, 2) - 1)
           \/ /\ m = -149
              /\ n * 2 ^ 53 <= (2 ^ 53 + 1) * 2 ^ (NumDigits(n, 2) - 1)
      ELSE \/ m < -45
           \/ m = -45 /\ Leading(n, 10, 9) < 700649232
           \/ /\ m = -45
              /\ Leading(n, 10, 9) = 700649232
              /\ ScaledSide(n, 10, e, -203) <= LimitSide(d, 10, e, 2 ^ 53 + 1, -203)

\* the e with 2^e <= n/d < 2^(e+1), for n > 0 and d > 0
RECURSIVE BinaryExponent(_, _)
BinaryExponent(n, d) ==
  IF n >= 2 * d THEN BinaryExponent(n, 2 * d) + 1
  ELSE IF n < d THEN BinaryExponent(2 * n, d) - 1
  ELSE 0

\* <<floor(n * 2^k / d), (n * 2^k) mod d>>, one binary digit at a time
RECURSIVE Shifted(_, _, _)
Shifted(n, d, k) ==
  IF k = 0 THEN <<n \div d, n % d>>
  ELSE LET s == Shifted(n, d, k - 1)
       IN  <<2 * s[1] + (2 * s[2]) \div d, (2 * s[2]) % d>>

\* the float that the value n/d > 0 within the range of a float reaches
\* setPower as.  atof rounds the text to a double (53 binary digits, to
\* nearest, a tie to the even one) and the call rounds the double to the float
\* parameter (24 binary digits, fewer below 2^-126, to nearest, a tie to the
\* even one).  With m the float's digits cut off and r/den the part of one unit
\* that is left, the double falls on the middle between two floats whenever
\* r/den is within 2^(digits - 54) of 1/2, and the float is then the even one
\* of the two; otherwise it is the nearer one.
Float(n, d) ==
  LET e == BinaryExponent(n, d)
      digits == IF e >= -126 THEN 24 ELSE e + 150
      k == digits - 1 - e
      den == IF k < 0 THEN d * 2 ^ (-k) ELSE d
      shift == IF k < 0 THEN 0 ELSE k
      s == Shifted(n, den, shift)
      m == s[1]
      r == s[2]
      middle == Abs(2 * r - den) <= den \div 2 ^ (53 - digits)
      up == IF middle THEN m % 2 = 1 ELSE 2 * r > den
      rounded == IF up THEN m + 1 ELSE m
  IN  IF k < 0 THEN <<rounded * 2 ^ (-k), 1>> ELSE Rat(rounded, 2 ^ k)

\* the float that n/d * radix^e reaches setPower as: infinite beyond the range
\* of a float, 0 below it, and the text's value rounded to a double and then to
\* a float in between
Scaled(n, d, radix, e) ==
  IF n = 0 THEN Zero
  ELSE IF RoundsToInfinity(n, d, radix, e) THEN PosInf
  ELSE IF RoundsToZero(n, d, radix, e) THEN Zero
  ELSE LET value == IF e >= 0 THEN Rat(n * radix ^ e, d)
                    ELSE Rat(n, d * radix ^ (-e))
       IN  Float(value[1], value[2])

\* the unsigned value from position i on: inf, infinity, nan, a hexadecimal
\* number after 0x, or a decimal number; 0.0 when none of them stands there
AtofUnsigned(s, i) ==
  IF FollowedBy(s, i, <<"i", "n", "f">>) THEN PosInf
  ELSE IF FollowedBy(s, i, <<"n", "a", "n">>) THEN NaN
  ELSE
    LET hex == IF FollowedBy(s, i, <<"0", "x">>)
               THEN AtofDigits(s, i + 2, 16, 0, 1, FALSE, FALSE)
               ELSE [n |-> 0, d |-> 1, next |-> i, seen |-> FALSE]
        dec == AtofDigits(s, i, 10, 0, 1, FALSE, FALSE)
    IN  IF hex.seen THEN Scaled(hex.n, hex.d, 2, AtofExponent(s, hex.next, "p"))
        ELSE IF dec.seen THEN Scaled(dec.n, dec.d, 10, AtofExponent(s, dec.next, "e"))
        ELSE Zero

\* atof(data): white space, an optional sign, then the longest text that reads
\* as a number; 0.0 when no number starts the text
atof(s) ==
  LET start == SkipSpace(s, 1)
      signed == start <= Len(s) /\ s[start] \in {"-", "+"}
      r == AtofUnsigned(s, IF signed THEN start + 1 ELSE start)
  IN  IF signed /\ s[start] = "-" THEN <<-r[1], r[2]>> ELSE r


\* ------------------------------------------------------- configuration

\* values of TIMEPROP_FALLBACK_POWERS a user may configure, in [0,1]
FallbackChoices == {Zero, One}

\* one output's entries of the TIMEPROP_* lists
OutputConfigs ==
  [ cycleTime : 0..MaxCycle, deadTime : 0..MaxDead, opInvert : BOOLEAN,
    fallback : FallbackChoices, maxInterval : 0..MaxInterval, relay : {1} ]

\* the header's example with the second relay's cycle time and relay: dead
\* time 0, not inverted, fallback 0, stale-input timeout disabled
ScenarioConfig ==
  [ cycleTime |-> ScenarioCycle, deadTime |-> 0, opInvert |-> FALSE,
    fallback |-> Zero, maxInterval |-> 0, relay |-> 2 ]

\* user_config.h for a single relay: TIMEPROP_NUM_OUTPUTS 1 and one entry per list
SingleConfigurations ==
  { [NUM_OUTPUTS |-> 1, outputs |-> [i \in {0} |-> o], clampedNaN |-> Zero] :
      o \in OutputConfigs \cup {ScenarioConfig} }

\* the entries the two-relay configurations draw from, first and second output
FirstOfTwo ==
  [ cycleTime : {2}, deadTime : {0}, opInvert : {TRUE},
    fallback : {Zero}, maxInterval : {0}, relay : {1, 3} ]

SecondOfTwo ==
  [ cycleTime : {3}, deadTime : {1}, opInvert : {FALSE},
    fallback : {<<1, 2>>, One}, maxInterval : {2}, relay : {1, 2} ]

\* the two-relay files explored: TIMEPROP_RELAYS 1, 2 as in the header with the
\* fractional fallback, and TIMEPROP_RELAYS 3, 1 with fallback 1; every output
\* has a relay of its own
BankPairs ==
  { <<a, b>> \in FirstOfTwo \X SecondOfTwo :
      \/ a.relay = 1 /\ b.relay = 2 /\ b.fallback = <<1, 2>>
      \/ a.relay = 3 /\ b.relay = 1 /\ b.fallback = One }

\* user_config.h for two relays: TIMEPROP_NUM_OUTPUTS 2 and two entries per
\* list, the first file built with a class that clamps a value that is not a
\* number to 0 and the second with one that clamps it to 1
BankConfigurations ==
  { [ NUM_OUTPUTS |-> 2, outputs |-> [i \in {0, 1} |-> p[i + 1]],
      clampedNaN |-> IF p[1].relay = 1 THEN Zero ELSE One ] : p \in BankPairs }

\* the float 0.2f, the power of the header's example: 13421773 / 2^26
Fifth == Float(1, 5)

\* power values a caller of Timeprop_Set_Power may pass: 0, 0.2f, 0.5, 1, 1.5
PowerChoices == {Zero, Fifth, <<1, 2>>, One, <<3, 2>>}

\* payloads of a command: XdrvMailbox.data, character by character
DataChoices ==
  { <<"0", ".", "2">>, <<"1", ".", "5">>, <<"1", "e", "1">>,
    <<"n", "a", "n">>, <<"i", "n", "f">>, <<"-", "1">> }

\* the payloads that are not a number, infinite or negative: nan, inf, -1
UnboundedData == { <<"n", "a", "n">>, <<"i", "n", "f">>, <<"-", "1">> }

\* the payload written with an exponent: 1e1, the power 10
ExponentData == <<"1", "e", "1">>

\* the payloads 0.2 and 1.5
FractionData == <<"0", ".", "2">>
AboveData == <<"1", ".", "5">>

\* power values other code of the firmware passes to Timeprop_Set_Power
DirectChoices == {<<-3, 1>>}

\* the topic cmnd/timeprop_setpower_n is posted with, the index n taken off
SetPowerTopic == D_CMND_TIMEPROP \o D_CMND_TIMEPROP_SETPOWER

\* the same topic as a user may spell it: TimeProp_SetPower_
MixedCaseTopic ==
  << "T", "i", "m", "e", "P", "r", "o", "p", "_",
     "S", "e", "t", "P", "o", "w", "e", "r", "_" >>

\* command topics: timeprop_setpower_, TimeProp_SetPower_, timeprop_other, power
TopicChoices ==
  { SetPowerTopic, MixedCaseTopic,
    D_CMND_TIMEPROP \o <<"o", "t", "h", "e", "r">>,
    <<"p", "o", "w", "e", "r">> }

Outputs == 0 .. (config.NUM_OUTPUTS - 1)

\* static int relayNos[TIMEPROP_NUM_OUTPUTS] = {TIMEPROP_RELAYS}
relayNos == [i \in Outputs |-> config.outputs[i].relay]

\* seconds the model lets the clock run
Horizon ==
  IF config.NUM_OUTPUTS > 1 THEN MaxBankTime
  ELSE IF config.outputs[0] = ScenarioConfig THEN MaxScenarioTime
  ELSE MaxTime

NoHistory ==
  [ newState   |-> 0,       \* the last value tick returned
    runLen     |-> 0,       \* length of the current run of equal results, counted up to deadTime + 1
    lastRun    |-> -1,      \* length of the last completed run (as counted), -1 when none
    cycleTicks |-> 0,       \* ticks in the current cycle
    onCount    |-> 0,       \* ticks in the current cycle reported on
    flips      |-> 0,       \* on/off transitions inside the current cycle
    cycleReq   |-> Zero,    \* requestedPower when the current cycle started
    cycleStale |-> FALSE ]  \* the input was stale when the current cycle started

\* the state after static construction, before FUNC_INIT
StaticState ==
  /\ booted = FALSE
  /\ timeprops = [i \in Outputs |-> Constructed]
  /\ currentRelayStates = 0
  /\ timeprop_current_time_secs = 0
  /\ mqtt_data = <<>>
  /\ hist = [i \in Outputs |-> NoHistory]
  /\ twins = [i \in Outputs |-> Constructed]

Init == config \in BankConfigurations /\ StaticState


\* ----------------------------------------------------------- Timeprop_Init

BoolToInt(b) == IF b THEN 1 ELSE 0

\* initialise called with deadTimes[i] and maxIntervals[i] in each other's place
InitOutput_SwappedDeadInterval(o, invert, now) ==
  initialise(o.cycleTime, o.maxInterval, invert, Rat(ToInt(o.fallback), 1),
             o.deadTime, now)

\* initialise called without opInverts[i]
InitOutput_NoInvert(o, invert, now) ==
  initialise(o.cycleTime, o.deadTime, 0, Rat(ToInt(o.fallback), 1),
             o.maxInterval, now)

\* timeprops[i].initialise(cycleTimes[i], deadTimes[i], opInverts[i], fallbacks[i],
\* maxIntervals[i], timeprop_current_time_secs); fallbacks[] is an array of int
InitOutput(o, invert, now) ==
  initialise(o.cycleTime, o.deadTime, invert, Rat(ToInt(o.fallback), 1),
             o.maxInterval, now)

Timeprop_Init ==
  /\ ~booted
  /\ booted' = TRUE
  /\ timeprops' = [i \in Outputs |->
       InitOutput(config.outputs[i], BoolToInt(config.outputs[i].opInvert),
                  timeprop_current_time_secs)]
  /\ twins' = [i \in Outputs |->
       InitOutput(config.outputs[i], BoolToInt(~config.outputs[i].opInvert),
                  timeprop_current_time_secs)]
  /\ hist' = [i \in Outputs |->
       [NoHistory EXCEPT !.cycleReq = timeprops'[i].requestedPower]]
  /\ UNCHANGED <<config, currentRelayStates, timeprop_current_time_secs, mqtt_data>>

\* ------------------------------------------------------ Timeprop_Set_Power

\* if (index >= 0 && index < TIMEPROP_NUM_OUTPUTS)
IndexInRange(index) == index >= 0 /\ index < config.NUM_OUTPUTS

\* an index out of range dispatched to the nearest controller instead of dropped
SetPowerAt_NearestIndex(tps, index, power, now) ==
  LET nearest == IF index < 0 THEN 0
                 ELSE IF index >= config.NUM_OUTPUTS THEN config.NUM_OUTPUTS - 1
                 ELSE index
  IN  [tps EXCEPT ![nearest] = setPower(tps[nearest], power, now)]

\* setPower dispatched to every controller instead of the one addressed
SetPowerAt_AllOutputs(tps, index, power, now) ==
  IF IndexInRange(index)
  THEN [j \in DOMAIN tps |-> setPower(tps[j], power, now)]
  ELSE tps

\* the controllers after dispatching setPower(power, now) to `index`
SetPowerAt(tps, index, power, now) ==
  IF IndexInRange(index)
  THEN [tps EXCEPT ![index] = setPower(tps[index], power, now)]
  ELSE tps

Timeprop_Set_Power(index, power) ==
  /\ booted
  /\ timeprops' = SetPowerAt(timeprops, index, power, timeprop_current_time_secs)
  /\ twins' = SetPowerAt(twins, index, power, timeprop_current_time_secs)
  /\ UNCHANGED <<config, booted, currentRelayStates, timeprop_current_time_secs,
                 mqtt_data, hist>>

\* ------------------------------------------------------ Timeprop_Xdrv_Power

\* XdrvMailbox.index is a uint16_t
Uint16(x) == x % 65536

\* only the state of the first relay taken from the mailbox
Timeprop_Xdrv_Power_LsbOnly(mailbox) == mailbox.index % 2

\* currentRelayStates = XdrvMailbox.index: the relay states after the call
Timeprop_Xdrv_Power(mailbox) == mailbox.index

\* ExecuteCommandPower(device, state, SRC_IGNORE): the firmware switches relay
\* `device` and calls FUNC_SET_POWER with the new relay states in XdrvMailbox.index
ExecuteCommandPower(relays, device, state) ==
  [index |-> Uint16(bitWrite(relays, device - 1, state))]

\* --------------------------------------------------- Timeprop_Every_Second

\* the loop ticking with the time of the second before
RECURSIVE EverySecondLoop_TickBeforeIncrement(_, _, _, _)
EverySecondLoop_TickBeforeIncrement(i, tps, relays, now) ==
  IF i >= config.NUM_OUTPUTS THEN [tps |-> tps, relays |-> relays, cmds |-> <<>>]
  ELSE
    LET c == tick(tps[i], now - 1)
        newState == tickResult(c)
        differs == newState # bitRead(relays, relayNos[i] - 1)
        rest == EverySecondLoop_TickBeforeIncrement(i + 1, [tps EXCEPT ![i] = c],
                  IF differs
                  THEN Timeprop_Xdrv_Power(ExecuteCommandPower(relays, relayNos[i], newState))
                  ELSE relays,
                  now)
    IN  [rest EXCEPT !.cmds = IF differs THEN <<<<relayNos[i], newState>>>> \o @ ELSE @]

\* the loop calling ExecuteCommandPower in every pass, changed or not
RECURSIVE EverySecondLoop_AlwaysCommand(_, _, _, _)
EverySecondLoop_AlwaysCommand(i, tps, relays, now) ==
  IF i >= config.NUM_OUTPUTS THEN [tps |-> tps, relays |-> relays, cmds |-> <<>>]
  ELSE
    LET c == tick(tps[i], now)
        newState == tickResult(c)
        rest == EverySecondLoop_AlwaysCommand(i + 1, [tps EXCEPT ![i] = c],
                  Timeprop_Xdrv_Power(ExecuteCommandPower(relays, relayNos[i], newState)),
                  now)
    IN  [rest EXCEPT !.cmds = <<<<relayNos[i], newState>>>> \o @]

\* the for loop from output i on: the controllers, the relay states, and the
\* calls of ExecuteCommandPower made, each as <<relay, state>>
RECURSIVE EverySecondLoop(_, _, _, _)
EverySecondLoop(i, tps, relays, now) ==
  IF i >= config.NUM_OUTPUTS THEN [tps |-> tps, relays |-> relays, cmds |-> <<>>]
  ELSE
    LET c == tick(tps[i], now)
        newState == tickResult(c)
        differs == newState # bitRead(relays, relayNos[i] - 1)
        rest == EverySecondLoop(i + 1, [tps EXCEPT ![i] = c],
                  IF differs
                  THEN Timeprop_Xdrv_Power(ExecuteCommandPower(relays, relayNos[i], newState))
                  ELSE relays,
                  now)
    IN  [rest EXCEPT !.cmds = IF differs THEN <<<<relayNos[i], newState>>>> \o @ ELSE @]

Min(a, b) == IF a < b THEN a ELSE b

\* the history of an output configured as o after a tick at `now` took its
\* controller from c to d
Record(h, o, c, d, now) ==
  LET newState == tickResult(d)
      on == Xor(newState, BoolToInt(o.opInvert))
      starts == StartsCycle(c, now)
      changed == h.runLen > 0 /\ newState # h.newState
  IN  [ newState   |-> newState,
        runLen     |-> IF changed THEN 1 ELSE Min(h.runLen + 1, o.deadTime + 1),
        lastRun    |-> IF changed THEN h.runLen ELSE h.lastRun,
        cycleTicks |-> IF starts THEN 1 ELSE h.cycleTicks + 1,
        onCount    |-> IF starts THEN on ELSE h.onCount + on,
        flips      |-> IF starts THEN 0
                       ELSE IF changed THEN Min(h.flips + 1, 2) ELSE h.flips,
        cycleReq   |-> IF starts THEN c.requestedPower ELSE h.cycleReq,
        cycleStale |-> IF starts
                       THEN /\ o.maxInterval > 0
                            /\ now - c.lastPowerUpdateTime > o.maxInterval
                       ELSE h.cycleStale ]

Timeprop_Every_Second ==
  /\ booted
  /\ timeprop_current_time_secs < Horizon
  /\ timeprop_current_time_secs' = timeprop_current_time_secs + 1
  /\ LET r == EverySecondLoop(0, timeprops, currentRelayStates,
                              timeprop_current_time_secs')
     IN  /\ timeprops' = r.tps
         /\ currentRelayStates' = r.relays
  /\ twins' = [i \in Outputs |-> tick(twins[i], timeprop_current_time_secs')]
  /\ hist' = [i \in Outputs |->
       Record(hist[i], config.outputs[i], timeprops[i], timeprops'[i],
              timeprop_current_time_secs')]
  /\ UNCHANGED <<config, booted, mqtt_data>>


\* -------------------------------------------------------- Timeprop_Command

\* const char kTimepropCommands[] PROGMEM = D_CMND_TIMEPROP_SETPOWER
kTimepropCommands == D_CMND_TIMEPROP_SETPOWER

\* uint8_t ua_prefix_len = strlen(D_CMND_TIMEPROP)
ua_prefix_len == Len(D_CMND_TIMEPROP)

\* 0 == strncasecmp_P(XdrvMailbox.topic, PSTR(D_CMND_TIMEPROP), ua_prefix_len)
HasTimepropPrefix(topic) == SameNoCase(topic, 1, D_CMND_TIMEPROP, 1, ua_prefix_len)

\* the end of the entry of a | separated list that starts at position i
RECURSIVE EntryEnd(_, _)
EntryEnd(haystack, i) ==
  IF i > Len(haystack) \/ haystack[i] = "|" THEN i ELSE EntryEnd(haystack, i + 1)

\* the firmware's GetCommandCode(command, sizeof(command), needle, haystack) from the entry at
\* position i, the entry number `result`: the number of the first entry that
\* strcasecmp finds equal to the needle, -1 when there is none
RECURSIVE GetCommandCode(_, _, _, _)
GetCommandCode(needle, haystack, i, result) ==
  LET end == EntryEnd(haystack, i)
  IN  IF Len(needle) = end - i /\ SameNoCase(needle, 1, haystack, i, end - i) THEN result
      ELSE IF end > Len(haystack) THEN -1
      ELSE GetCommandCode(needle, haystack, end + 1, result + 1)

\* enum TimepropCommands { CMND_TIMEPROP_SETPOWER }
CMND_TIMEPROP_SETPOWER == 0

\* XdrvMailbox.topic + ua_prefix_len
AfterPrefix(topic) == SubSeq(topic, ua_prefix_len + 1, Len(topic))

\* serviced left true by the prefix test alone, the command code not looked at
ServicedTopic_PrefixOnly(topic) == HasTimepropPrefix(topic)

\* boolean serviced, as the two tests leave it for a command with this topic
ServicedTopic(topic) ==
  /\ HasTimepropPrefix(topic)
  /\ GetCommandCode(AfterPrefix(topic), kTimepropCommands, 1, 0) = CMND_TIMEPROP_SETPOWER

\* the topics of TopicChoices a command is serviced with, worked out once
ServicedTopics == { topic \in TopicChoices : ServicedTopic(topic) }

\* boolean serviced
Serviced(mailbox) ==
  IF mailbox.topic \in TopicChoices THEN mailbox.topic \in ServicedTopics
  ELSE ServicedTopic(mailbox.topic)

\* the payloads 1.0 and 0.0
OneData == <<"1", ".", "0">>
ZeroData == <<"0", ".", "0">>

\* atof of every payload of DataChoices and of 1.0 and 0.0, worked out once
PayloadValues == [ data \in DataChoices \cup {OneData, ZeroData} |-> atof(data) ]

\* atof(XdrvMailbox.data)
PayloadValue(data) ==
  IF data \in DOMAIN PayloadValues THEN PayloadValues[data] ELSE atof(data)

\* Timeprop_Command with the mailbox the firmware filled in
Timeprop_Command(mailbox) ==
  /\ booted
  /\ IF Serviced(mailbox)
     THEN /\ mqtt_data' = <<mailbox.index, mailbox.data>>
          /\ LET power == PayloadValue(mailbox.data)
             IN  /\ timeprops' = SetPowerAt(timeprops, mailbox.index, power,
                                            timeprop_current_time_secs)
                 /\ twins' = SetPowerAt(twins, mailbox.index, power,
                                        timeprop_current_time_secs)
     ELSE UNCHANGED <<timeprops, twins, mqtt_data>>
  /\ UNCHANGED <<config, booted, currentRelayStates, timeprop_current_time_secs, hist>>

\* FUNC_SET_POWER: the firmware reports relay states changed by anyone
Relay_Changed(mailbox) ==
  /\ booted
  /\ currentRelayStates' = Timeprop_Xdrv_Power(mailbox)
  /\ UNCHANGED <<config, booted, timeprops, timeprop_current_time_secs,
                 mqtt_data, hist, twins>>

\* ------------------------------------------------------------------ Xdrv91

\* the mailbox of a command: XdrvMailbox.index is a uint16_t
CommandMailboxes ==
  [ index : 0..config.NUM_OUTPUTS, topic : {SetPowerTopic}, data : {FractionData} ]
  \cup
  [ index : {0}, topic : {SetPowerTopic}, data : {AboveData} ]
  \cup
  [ index : {0}, topic : TopicChoices, data : {ExponentData} ]
  \cup
  [ index : {0}, topic : {SetPowerTopic}, data : UnboundedData ]

\* the relay states with the relays of the outputs in S on and the others off
RECURSIVE RelayWord(_)
RelayWord(S) ==
  IF S = {} THEN 0
  ELSE LET i == CHOOSE j \in S : TRUE
       IN  bitWrite(RelayWord(S \ {i}), relayNos[i] - 1, 1)

\* relay states the firmware may report: one bit per configured relay
PowerMailboxes == [ index : { RelayWord(S) : S \in SUBSET Outputs } ]

Xdrv91(function) ==
  \/ function = "FUNC_INIT" /\ Timeprop_Init
  \/ function = "FUNC_EVERY_SECOND" /\ Timeprop_Every_Second
  \/ function = "FUNC_COMMAND" /\ \E mailbox \in CommandMailboxes : Timeprop_Command(mailbox)
  \/ function = "FUNC_SET_POWER" /\ \E mailbox \in PowerMailboxes : Relay_Changed(mailbox)

Functions == {"FUNC_INIT", "FUNC_EVERY_SECOND", "FUNC_COMMAND", "FUNC_SET_POWER"}

Next ==
  \/ \E function \in Functions : Xdrv91(function)
  \/ \E index \in -1..config.NUM_OUTPUTS, power \in DirectChoices :
        Timeprop_Set_Power(index, power)

Spec == Init /\ [][Next]_vars

\* the controllers alone: initialisation, the clock and direct calls of Timeprop_Set_Power
NextTimeprop ==
  \/ Timeprop_Init
  \/ Timeprop_Every_Second
  \/ \E index \in 0..config.NUM_OUTPUTS, power \in PowerChoices :
        Timeprop_Set_Power(index, power)

InitTimeprop == config \in SingleConfigurations /\ StaticState

SpecTimeprop == InitTimeprop /\ [][NextTimeprop]_vars


\* ================================================================ claims

\* the entries of the TIMEPROP_* lists for output i
Configured(i) == config.outputs[i]

\* output i has ticked at least once
Ticked(i) == booted /\ hist[i].runLen > 0

\* the last tick of output i reported 'on': the logical state, which the value
\* returned is for an output that is not inverted and the complement of otherwise
ReportedOn(i) == Xor(hist[i].newState, BoolToInt(Configured(i).opInvert)) = 1

\* output i is initialised with a configuration section 3 of the specification allows
InService(i) ==
  booted /\ ValidConfiguration(Configured(i).cycleTime, Configured(i).deadTime)

\* the power in force when the current cycle of output i started: the requested
\* power, or the fallback power the input had fallen back to
CyclePower(i) ==
  IF hist[i].cycleStale THEN timeprops[i].fallbackPower ELSE hist[i].cycleReq

\* C1: with a dead time d > 0, no run of equal tick results that has ended
\* (a maximal run of consecutive 'on' or of consecutive 'off' ticks) was
\* shorter than d ticks, whatever powers were set in between.
C1_DeadTimeRespected ==
  \A i \in Outputs :
    (InService(i) /\ Configured(i).deadTime > 0 /\ hist[i].lastRun # -1)
      => hist[i].lastRun >= Configured(i).deadTime

\* a run of exactly d = 2 ticks has ended, after the power was changed
C1_Witness ==
  \E i \in Outputs :
    /\ InService(i)
    /\ Configured(i).deadTime = 2
    /\ hist[i].lastRun = 2
    /\ timeprops[i].lastPowerUpdateTime > 0

\* C2: with dead time 0, a full cycle that has run under the power p reports
\* round(p * cycleTimeSeconds) ticks 'on'; cycle 10 and p = 0.2 give 2.
C2_AveragePower ==
  /\ Round(Fifth, ScenarioCycle) = 2
  /\ \A i \in Outputs :
       ( /\ InService(i)
         /\ Configured(i).deadTime = 0
         /\ hist[i].cycleTicks = Configured(i).cycleTime )
       => hist[i].onCount = Round(CyclePower(i), Configured(i).cycleTime)

\* the second full cycle of ten seconds under power 0.2, set once at time 0,
\* has ended with 2 ticks on
C2_Witness ==
  \E i \in Outputs :
    /\ InService(i)
    /\ Configured(i).deadTime = 0
    /\ Configured(i).cycleTime = ScenarioCycle
    /\ hist[i].cycleTicks = ScenarioCycle
    /\ timeprops[i].cycleStartTime = ScenarioCycle
    /\ CyclePower(i) = Fifth
    /\ timeprops[i].requestedPower = Fifth
    /\ timeprops[i].lastPowerUpdateTime = 0
    /\ hist[i].onCount = 2

\* fallbackPower, not from the last requested power.
C4_StaleUsesFallback ==
  \A i \in Outputs :
    (booted /\ hist[i].cycleStale) =>
      timeprops[i].onTimeThisCycle =
        Round(timeprops[i].fallbackPower, Configured(i).cycleTime)

\* a cycle that started stale, where the requested power would have given another on-time
C4_Witness ==
  \E i \in Outputs :
    /\ InService(i)
    /\ hist[i].cycleStale
    /\ Configured(i).maxInterval > 0
    /\ timeprops[i].lastPowerUpdateTime > 0
    /\ Round(hist[i].cycleReq, Configured(i).cycleTime)
         # Round(timeprops[i].fallbackPower, Configured(i).cycleTime)

\* C5: with maxUpdateIntervalSeconds = 0 the input never counts as stale: every
\* on-time is computed from the requested power, however long ago it was set.
C5_DisabledNeverStale ==
  \A i \in Outputs :
    (booted /\ Configured(i).maxInterval = 0) =>
      /\ ~IsStale(timeprops[i], timeprop_current_time_secs)
      /\ timeprops[i].onTimeThisCycle # NoOnTime =>
           timeprops[i].onTimeThisCycle = Round(hist[i].cycleReq, Configured(i).cycleTime)

\* a cycle started longer after the last setPower than any timeout of the model,
\* on a requested power that differs from the fallback power
C5_Witness ==
  \E i \in Outputs :
    /\ InService(i)
    /\ Configured(i).maxInterval = 0
    /\ timeprops[i].lastPowerUpdateTime > 0
    /\ timeprops[i].cycleStartTime - timeprops[i].lastPowerUpdateTime > MaxInterval + 1
    /\ timeprops[i].requestedPower = <<1, 2>>
    /\ timeprops[i].fallbackPower = One
    /\ timeprops[i].onTimeThisCycle = Round(<<1, 2>>, Configured(i).cycleTime)
    /\ timeprops[i].onTimeThisCycle # Configured(i).cycleTime


\* what one call of setPower may change: nothing but the controllers (and their twins)
SetPowerFrame ==
  UNCHANGED <<config, booted, currentRelayStates, timeprop_current_time_secs, hist>>

\* a power within 0..1: a number, neither infinite nor below 0 nor above 1
InRange(power) == power[2] > 0 /\ 0 <= power[1] /\ power[1] <= power[2]

\* controller returns, and differs from it in nothing but outputInverted.
C7_Inversion ==
  \A i \in Outputs :
    Ticked(i) =>
      /\ tickResult(twins[i]) = 1 - hist[i].newState
      /\ timeprops[i].outputInverted = BoolToInt(Configured(i).opInvert)
      /\ twins[i] = [timeprops[i] EXCEPT !.outputInverted = 1 - timeprops[i].outputInverted]

\* an output that is not inverted has gone off and on again: it returns 1, its twin 0
C7_Witness ==
  \E i \in Outputs :
    /\ Ticked(i)
    /\ ~Configured(i).opInvert
    /\ hist[i].lastRun # -1
    /\ timeprops[i].lastPowerUpdateTime > 0
    /\ hist[i].newState = 1
    /\ tickResult(twins[i]) = 0

\* C8: a set-power request with an index outside 0..N-1 changes nothing: no
\* controller, no history of results, no relay state.
C8_OutOfRangeIgnored ==
  [][ /\ \A index \in {-1, config.NUM_OUTPUTS}, power \in DirectChoices :
           Timeprop_Set_Power(index, power) =>
             UNCHANGED <<timeprops, twins, hist, currentRelayStates,
                         timeprop_current_time_secs>>
      /\ \A mailbox \in CommandMailboxes :
           (mailbox.index \notin Outputs /\ Timeprop_Command(mailbox)) =>
             UNCHANGED <<timeprops, twins, hist, currentRelayStates,
                         timeprop_current_time_secs>> ]_vars

\* timeprop_setpower_2 was acknowledged with two outputs configured, and no
\* controller has been given a power since initialisation
C8_Witness ==
  /\ booted
  /\ timeprop_current_time_secs > 0
  /\ mqtt_data # <<>>
  /\ mqtt_data[1] = config.NUM_OUTPUTS
  /\ \A i \in Outputs :
       /\ timeprops[i].lastPowerUpdateTime = 0
       /\ timeprops[i].requestedPower = timeprops[i].fallbackPower

\* output i runs the scenario of the header's single-relay example with
\* setPower(0.2) issued at t = 0 and nothing since
ScenarioRunning(i) ==
  /\ Configured(i) = ScenarioConfig
  /\ Ticked(i)
  /\ timeprops[i].requestedPower = Fifth
  /\ timeprops[i].lastPowerUpdateTime = 0

\* the seconds of the current cycle of output i that have passed, its first included
CycleSeconds(i) == timeprop_current_time_secs - timeprops[i].cycleStartTime + 1

\* the on-segment of the current cycle of output i is shorter than the dead time
ShortOn(i) ==
  /\ 0 < timeprops[i].onTimeThisCycle
  /\ timeprops[i].onTimeThisCycle < Configured(i).deadTime

\* the off-segment of the current cycle of output i is shorter than the dead time
ShortOff(i) ==
  LET off == timeprops[i].cycleTimeSeconds - timeprops[i].onTimeThisCycle
  IN  0 < off /\ off < Configured(i).deadTime

\* C10 as stated: every tick of a cycle with 0 < on-time < dead time is 'off',
\* and every tick of a cycle with 0 < off-time < dead time is 'on'.
C10_BothSuppressed ==
  \A i \in Outputs :
    (InService(i) /\ Ticked(i)) =>
      /\ ShortOn(i) => ~ReportedOn(i)
      /\ ShortOff(i) => ReportedOn(i)

\* C10: every tick of a cycle with 0 < on-time < dead time is 'off' (cycle 60,
\* dead 5, power 0.05 gives 3 s and no 'on' tick); every tick of a cycle with
\* 0 < off-time < dead time is 'on', unless the on-time of that cycle is itself
\* below the dead time, when the cycle is 'off' throughout.
C10_DeadTimeSuppression ==
  /\ \A i \in Outputs :
       (InService(i) /\ Ticked(i)) =>
         /\ ShortOn(i) => ~ReportedOn(i)
         /\ (ShortOff(i) /\ ~ShortOn(i)) => ReportedOn(i)
  /\ ValidConfiguration(60, 5)
  /\ OnTime(<<1, 20>>, 60) = 3
  /\ \A elapsed \in 0..59 :
       ~DesiredState([cycleTimeSeconds |-> 60, deadTimeSeconds |-> 5,
                      onTimeThisCycle |-> OnTime(<<1, 20>>, 60)], elapsed)

\* a whole cycle has passed 'off' whose on-time and off-time are both above 0
\* and below the dead time
C10_Witness ==
  \E i \in Outputs :
    /\ InService(i)
    /\ Ticked(i)
    /\ ShortOn(i)
    /\ ShortOff(i)
    /\ timeprops[i].cycleStartTime > 0
    /\ hist[i].cycleTicks = Configured(i).cycleTime
    /\ hist[i].onCount = 0

\* C11 as stated: an output whose configuration is invalid (dead time >= cycle
\* time, or cycle time <= 0) is rejected at initialise, its tick is never run
\* and its relay is never driven.
C11_InvalidNeverInService ==
  \A i \in Outputs :
    (booted /\ ~ValidConfiguration(Configured(i).cycleTime, Configured(i).deadTime)) =>
      /\ timeprops[i].configError
      /\ ~Ticked(i)
      /\ bitRead(currentRelayStates, relayNos[i] - 1) = 0

\* an output configured with cycle time 2 and dead time 2 has been ticked and
\* its relay is recorded on
C11_Witness ==
  \E i \in Outputs :
    /\ booted
    /\ Configured(i).cycleTime = 2
    /\ Configured(i).deadTime = 2
    /\ timeprops[i].configError
    /\ Ticked(i)
    /\ bitRead(currentRelayStates, relayNos[i] - 1) = 1

\* the controller c after the ticks at from + 1 .. to
RECURSIVE TickedTo(_, _, _)
TickedTo(c, from, to) ==
  IF from >= to THEN c ELSE TickedTo(tick(c, from + 1), from + 1, to)

\* no setPower call has changed controller i since it was initialised at time 0
NotSetSince(i) ==
  /\ booted
  /\ timeprops[i].lastPowerUpdateTime = 0
  /\ timeprops[i].requestedPower = timeprops[i].fallbackPower

\* C12: Timeprop_Init at time t0 leaves every controller with requestedPower =
\* fallbackPower, lastPowerUpdateTime = t0, cycleStartTime = t0 and the logical
\* output off; and as long as no setPower has changed it, a controller is in the
\* state that the ticks since t0 give a controller requesting fallbackPower.
C12_AfterInitialise ==
  /\ [][ (~booted /\ booted') =>
           \A i \in Outputs :
             /\ timeprops'[i].requestedPower = timeprops'[i].fallbackPower
             /\ timeprops'[i].lastPowerUpdateTime = timeprop_current_time_secs'
             /\ timeprops'[i].cycleStartTime = timeprop_current_time_secs'
             /\ ~timeprops'[i].currentOutputState ]_vars
  /\ [](\A i \in Outputs :
          NotSetSince(i) =>
            timeprops[i] =
              TickedTo(setPower(InitOutput(Configured(i), BoolToInt(Configured(i).opInvert), 0),
                                timeprops[i].fallbackPower, 0),
                       0, timeprop_current_time_secs))

\* a controller with fallback power 1 that was never given a power has run
\* through a whole cycle and into the next, and reports on
C12_Witness ==
  \E i \in Outputs :
    /\ InService(i)
    /\ NotSetSince(i)
    /\ timeprops[i].fallbackPower = One
    /\ timeprops[i].cycleStartTime > 0
    /\ timeprop_current_time_secs > timeprops[i].cycleStartTime
    /\ Ticked(i)
    /\ ReportedOn(i)

\* C13: a setPower dispatched to a valid index i, by command or by a call of
\* Timeprop_Set_Power, changes no controller other than i; and a once-per-second
\* pass takes each controller to the state its own tick gives, whatever the
\* other controllers hold, so the results of j never depend on calls for i # j.
C13_Independent ==
  [][ /\ \A mailbox \in CommandMailboxes :
           (mailbox.index \in Outputs /\ mqtt_data' = <<mailbox.index, mailbox.data>>
              /\ Timeprop_Command(mailbox)) =>
             \A j \in Outputs \ {mailbox.index} :
               timeprops'[j] = timeprops[j] /\ hist'[j] = hist[j]
      /\ \A index \in Outputs, power \in DirectChoices :
           Timeprop_Set_Power(index, power) =>
             \A j \in Outputs \ {index} :
               timeprops'[j] = timeprops[j] /\ hist'[j] = hist[j]
      /\ (timeprop_current_time_secs' = timeprop_current_time_secs + 1) =>
           \A j \in Outputs :
             /\ timeprops'[j] = tick(timeprops[j], timeprop_current_time_secs')
             /\ hist'[j].newState = tickResult(timeprops'[j]) ]_vars

\* output 0 has just been given power 0.2 by command while output 1, ticked
\* already, still is as initialised
C13_Witness ==
  /\ booted
  /\ config.NUM_OUTPUTS > 1
  /\ timeprop_current_time_secs > 0
  /\ mqtt_data = <<0, <<"0", ".", "2">>>>
  /\ timeprops[0].requestedPower = Fifth
  /\ timeprops[0].lastPowerUpdateTime = timeprop_current_time_secs
  /\ Ticked(1)
  /\ timeprops[1].lastPowerUpdateTime = 0
  /\ timeprops[1].requestedPower = timeprops[1].fallbackPower

\* and 0 <= now - cycleStartTime < cycle time.
C15_NoDrift ==
  \A i \in Outputs :
    (InService(i) /\ Ticked(i)) =>
      /\ timeprops[i].cycleStartTime % Configured(i).cycleTime = 0
      /\ 0 <= timeprop_current_time_secs - timeprops[i].cycleStartTime
      /\ timeprop_current_time_secs - timeprops[i].cycleStartTime < Configured(i).cycleTime

\* a controller with a cycle of several seconds is one second or more into its third cycle
C15_Witness ==
  \E i \in Outputs :
    /\ InService(i)
    /\ Ticked(i)
    /\ Configured(i).cycleTime >= 2
    /\ timeprops[i].cycleStartTime = 2 * Configured(i).cycleTime
    /\ timeprop_current_time_secs > timeprops[i].cycleStartTime

\* controller i is STALE at the driver's current time
Stale(i) == IsStale(timeprops[i], timeprop_current_time_secs)

\* C16: a controller is STALE exactly when a timeout m > 0 is configured and more
\* than m seconds have passed since its last setPower, whatever its output; a
\* pass of the clock alone takes it from FRESH to STALE when the elapsed time
\* exceeds m, and any setPower addressed to a STALE controller leaves it FRESH,
\* whatever the value.
C16_FreshStale ==
  /\ [](\A i \in Outputs :
          booted =>
            (Stale(i) <=>
               /\ Configured(i).maxInterval > 0
               /\ timeprop_current_time_secs - timeprops[i].lastPowerUpdateTime
                    > Configured(i).maxInterval))
  /\ [][ booted =>
           \A i \in Outputs :
             /\ (/\ ~Stale(i)
                 /\ timeprop_current_time_secs' = timeprop_current_time_secs + 1
                 /\ Configured(i).maxInterval > 0
                 /\ timeprop_current_time_secs' - timeprops[i].lastPowerUpdateTime
                      > Configured(i).maxInterval) =>
                  /\ IsStale(timeprops'[i], timeprop_current_time_secs')
                  /\ timeprops'[i].lastPowerUpdateTime = timeprops[i].lastPowerUpdateTime
                  /\ timeprops'[i].requestedPower = timeprops[i].requestedPower
             /\ Stale(i) =>
                  \A power \in PowerChoices :
                    Timeprop_Set_Power(i, power) =>
                      /\ ~IsStale(timeprops'[i], timeprop_current_time_secs')
                      /\ timeprops'[i].lastPowerUpdateTime = timeprop_current_time_secs ]_vars

\* a controller given a power after initialisation has gone STALE while its
\* output is on
C16_Witness ==
  \E i \in Outputs :
    /\ InService(i)
    /\ Ticked(i)
    /\ timeprops[i].lastPowerUpdateTime > 0
    /\ Stale(i)
    /\ ReportedOn(i)

\* the calls of ExecuteCommandPower a once-per-second pass makes from the current state
PassCommands ==
  EverySecondLoop(0, timeprops, currentRelayStates, timeprop_current_time_secs + 1).cmds

\* C17: in each once-per-second pass the driver calls ExecuteCommandPower for
\* output i, once and with the tick result, exactly when the result of
\* controller i's tick differs from bit relayNos[i]-1 of currentRelayStates as
\* it stood before the pass; it makes no call for an output whose result equals it.
C17_ChangeNotification ==
  [][ (booted /\ timeprop_current_time_secs' = timeprop_current_time_secs + 1) =>
        /\ timeprops' = EverySecondLoop(0, timeprops, currentRelayStates,
                                        timeprop_current_time_secs').tps
        /\ \A i \in Outputs :
             LET newState == tickResult(tick(timeprops[i], timeprop_current_time_secs'))
                 calls == {k \in 1..Len(PassCommands) : PassCommands[k][1] = relayNos[i]}
             IN  /\ hist'[i].newState = newState
                 /\ (calls # {}) <=>
                      (newState # bitRead(currentRelayStates, relayNos[i] - 1))
                 /\ Cardinality(calls) <= 1
                 /\ \A k \in calls : PassCommands[k][2] = newState ]_vars

\* after a pass the result of output 1 has changed for the first time while
\* that of output 0 never has, and both relays are recorded as the results say
C17_Witness ==
  /\ booted
  /\ config.NUM_OUTPUTS > 1
  /\ Ticked(0)
  /\ hist[0].lastRun = -1
  /\ hist[1].runLen = 1
  /\ hist[1].lastRun # -1
  /\ \A i \in Outputs : bitRead(currentRelayStates, relayNos[i] - 1) = hist[i].newState

\* C18 as stated: the fallback power configured for an output, fractional or
\* not, is the fallbackPower its controller holds, the power it is initialised
\* with, and the power whose on-time a cycle started STALE gets.
C18_FallbackUnchanged ==
  \A i \in Outputs :
    booted =>
      /\ timeprops[i].fallbackPower = Configured(i).fallback
      /\ NotSetSince(i) => timeprops[i].requestedPower = Configured(i).fallback
      /\ (Ticked(i) /\ hist[i].cycleStale) =>
           timeprops[i].onTimeThisCycle
             = OnTime(Configured(i).fallback, Configured(i).cycleTime)

\* an output configured with fallback power 0.5 holds fallback power 0 and has
\* started a cycle STALE with on-time 0
C18_Witness ==
  \E i \in Outputs :
    /\ InService(i)
    /\ Configured(i).fallback = <<1, 2>>
    /\ timeprops[i].fallbackPower = Zero
    /\ Ticked(i)
    /\ hist[i].cycleStale
    /\ timeprops[i].onTimeThisCycle = 0
    /\ OnTime(Configured(i).fallback, Configured(i).cycleTime) > 0

\* C19: whatever FUNC_SET_POWER has reported since the pass before, a
\* once-per-second pass calls ExecuteCommandPower with controller i's result for
\* every output whose recorded relay state disagrees with it, and after the
\* pass the recorded state of every output's relay is its controller's result.
C19_SelfCorrection ==
  [][ (booted /\ timeprop_current_time_secs' = timeprop_current_time_secs + 1) =>
        \A i \in Outputs :
          /\ bitRead(currentRelayStates', relayNos[i] - 1) = tickResult(timeprops'[i])
          /\ (bitRead(currentRelayStates, relayNos[i] - 1) # tickResult(timeprops'[i])) =>
               \E k \in 1..Len(PassCommands) :
                 PassCommands[k] = <<relayNos[i], tickResult(timeprops'[i])>> ]_vars

\* between two passes FUNC_SET_POWER has reported a relay in the state opposite
\* to the one its controller returned at the last tick
C19_Witness ==
  \E i \in Outputs :
    /\ Ticked(i)
    /\ timeprop_current_time_secs < Horizon
    /\ bitRead(currentRelayStates, relayNos[i] - 1) # hist[i].newState
    /\ bitRead(currentRelayStates, relayNos[i] - 1) # tickResult(timeprops[i])

\* C20: a command timeprop_setpower_<index>, in whatever case the topic is
\* spelt, is serviced and acknowledged with
\* the index and the data received whether or not the index is in range, and
\* with an index >= TIMEPROP_NUM_OUTPUTS it changes no controller; any other
\* command, with the prefix timeprop_ or without, is not serviced and changes
\* nothing.
C20_Acknowledged ==
  /\ [](ServicedTopics = {SetPowerTopic, MixedCaseTopic})
  /\ [][ \A mailbox \in CommandMailboxes :
           IF mailbox.topic \in ServicedTopics
           THEN /\ mqtt_data' = <<mailbox.index, mailbox.data>> \/ ~Timeprop_Command(mailbox)
                /\ \/ mailbox.index < config.NUM_OUTPUTS
                   \/ UNCHANGED <<timeprops, twins, hist, currentRelayStates,
                                  timeprop_current_time_secs>>
                   \/ ~Timeprop_Command(mailbox)
           ELSE UNCHANGED vars \/ ~Timeprop_Command(mailbox) ]_vars

\* timeprop_setpower_2 0.2 is the command acknowledged last, after the first
\* tick, and no controller holds the power 0.2
C20_Witness ==
  /\ booted
  /\ Ticked(0)
  /\ mqtt_data = <<config.NUM_OUTPUTS, <<"0", ".", "2">>>>
  /\ \A i \in Outputs : timeprops[i].requestedPower # Fifth

====
